---------------------------- MODULE Spec2Model ----------------------------
(***************************************************************************)
(* kubectl image-sizes: the image resolution and reporting engine.         *)
(*                                                                         *)
(* Strings are sequences of characters; the seven characters of the word   *)
(* sha256 are carried as the one element "sha256", which behaves like any  *)
(* ordinary character (it is neither ':' nor '@' nor a newline).           *)
(***************************************************************************)
EXTENDS Integers, Sequences, FiniteSets, TLC

VARIABLES
    imageCache,   \* var imageCache map[string]PodImageInfo
    cacheMutex,   \* var cacheMutex sync.Mutex: Free, or the caller holding it
    gid,          \* per caller: the frame of getImageDetails
    insp,         \* per caller: history, the docker manifest inspect runs of its call
    podf,         \* the frame of getPodImageReport
    scan,         \* the frame of getNamespaceImageReportsForSingleNamespace
    clf,          \* the frame of getNamespaceImageReports
    mainf,        \* the flags and the frame of main
    stderr,       \* the warnings and errors written to os.Stderr
    outcomes,     \* history: each getPodImageReport call that returned, and how
    resolved      \* history: first record returned for a digest-pinned URI, by reference

vars == <<imageCache, cacheMutex, gid, insp, podf, scan, clf, mainf, stderr, outcomes, resolved>>

\* the state of the callers of getImageDetails
callers == <<podf, scan, clf, mainf, stderr, outcomes, resolved>>

-----------------------------------------------------------------------------
(* Strings *)

Min(S) == CHOOSE x \in S : \A y \in S : x <= y

Max(S) == CHOOSE x \in S : \A y \in S : x >= y

Tail0(s, n) == SubSeq(s, n + 1, Len(s))

HasPrefix(s, p) == Len(s) >= Len(p) /\ SubSeq(s, 1, Len(p)) = p

NoNL(s) == \A i \in 1..Len(s) : s[i] # "\n"

NoAt(s) == \A i \in 1..Len(s) : s[i] # "@"

\* the positions at which sub occurs in s
Occurrences(s, sub) ==
    {i \in 1..(Len(s) - Len(sub) + 1) : SubSeq(s, i, i + Len(sub) - 1) = sub}

\* strings.Contains
Contains(s, sub) == Occurrences(s, sub) # {}

ATSHA == <<"@", "sha256", ":">>

NA == <<"N", "/", "A">>

-----------------------------------------------------------------------------
(* parseImageURI: ^(.*?)(?::([^@]+))?(?:@sha256:(.+))?$ under Go's          *)
(* leftmost-first rule: the shortest group 1 for which the rest matches,   *)
(* the tag group taken when it can be and then as long as it can be.       *)

\* (?:@sha256:(.+))?$ against the remainder x
DigestRestOK(x) ==
    \/ x = <<>>
    \/ HasPrefix(x, ATSHA) /\ Len(x) > Len(ATSHA) /\ NoNL(Tail0(x, Len(ATSHA)))

\* the lengths of group 2 with which the match completes when group 1 is s[1..n]
TagLens(s, n) ==
    {t \in 1..(Len(s) - n - 1) :
        /\ s[n + 1] = ":"
        /\ NoAt(SubSeq(s, n + 2, n + 1 + t))
        /\ DigestRestOK(Tail0(s, n + 1 + t))}

\* the lengths of group 1 with which the match completes
PrefixLens(s) ==
    {n \in 0..Len(s) :
        /\ NoNL(SubSeq(s, 1, n))
        /\ (TagLens(s, n) # {} \/ DigestRestOK(Tail0(s, n)))}

\* re.FindStringSubmatch: nil when the pattern does not match
FindStringSubmatch(s) ==
    IF PrefixLens(s) = {}
    THEN [nil |-> TRUE, g1 |-> <<>>, g2 |-> <<>>, g3 |-> <<>>]
    ELSE LET n == Min(PrefixLens(s))
             t == IF TagLens(s, n) # {} THEN Max(TagLens(s, n)) ELSE 0
             k == IF t > 0 THEN n + 1 + t ELSE n
             rest == Tail0(s, k)
         IN  [nil |-> FALSE,
              g1 |-> SubSeq(s, 1, n),
              g2 |-> IF t > 0 THEN SubSeq(s, n + 2, n + 1 + t) ELSE <<>>,
              g3 |-> IF rest = <<>> THEN <<>> ELSE Tail0(rest, Len(ATSHA))]

\* indexing a nil match panics
parseImageURI(imageURI) ==
    LET matches == FindStringSubmatch(imageURI)
    IN  IF matches.nil
        THEN [panic |-> TRUE, cleanedImage |-> <<>>, tag |-> <<>>, shaDigest |-> <<>>]
        ELSE [panic |-> FALSE,
              cleanedImage |-> matches.g1,
              tag |-> IF matches.g2 = <<>> THEN NA ELSE matches.g2,
              shaDigest |-> matches.g3]

-----------------------------------------------------------------------------
(* formatSize *)

KiB == 1024

MiB == 1048576

GiB == 1073741824

\* %.2f of rem/GiB for 0 <= rem < GiB, in hundredths: the nearest hundredth,
\* an exact half going to the even one
Hundredths(rem) ==
    LET a == rem \div KiB
        b == rem % KiB
        \* rem * 100 = q * GiB + r, computed without leaving 32 bits
        num == a * 100 + (b * 100) \div KiB      \* floor(rem * 100 / KiB)
        low == (b * 100) % KiB
        q == num \div MiB
        r == num % MiB                           \* remainder in units of KiB, plus low
        half == MiB \div 2
    IN  IF r > half \/ (r = half /\ low > 0) THEN q + 1
        ELSE IF r = half /\ low = 0 THEN (IF q % 2 = 0 THEN q ELSE q + 1)
        ELSE q

\* the bounds of the bands taken with <= in place of <
formatSize_Inclusive(sizeBytes) ==
    IF sizeBytes <= MiB
    THEN [whole |-> sizeBytes \div KiB, hundredths |-> 0, unit |-> "KB"]
    ELSE IF sizeBytes <= GiB
    THEN [whole |-> sizeBytes \div MiB, hundredths |-> 0, unit |-> "MB"]
    ELSE LET h == Hundredths(sizeBytes % GiB)
         IN  [whole |-> sizeBytes \div GiB + h \div 100, hundredths |-> h % 100, unit |-> "GB"]

formatSize(sizeBytes) ==
    IF sizeBytes < MiB
    THEN [whole |-> sizeBytes \div KiB, hundredths |-> 0, unit |-> "KB"]
    ELSE IF sizeBytes < GiB
    THEN [whole |-> sizeBytes \div MiB, hundredths |-> 0, unit |-> "MB"]
    ELSE LET h == Hundredths(sizeBytes % GiB)
         IN  [whole |-> sizeBytes \div GiB + h \div 100, hundredths |-> h % 100, unit |-> "GB"]

-----------------------------------------------------------------------------
(* Values *)

\* an error value; Nil is Go's nil error
Err(msg, arch, image) == [msg |-> msg, arch |-> arch, image |-> image]

Nil == Err("nil", "", <<>>)

\* the zero value PodImageInfo{}
ZeroInfo ==
    [ContainerName |-> "", ImageURI |-> <<>>, Tag |-> <<>>, ShaDigest |-> <<>>,
     Size |-> [whole |-> 0, hundredths |-> 0, unit |-> ""], SizeBytes |-> 0]

\* the zero value PodImageReport{}
ZeroReport == [PodName |-> 0, Namespace |-> "", Images |-> <<>>]

-----------------------------------------------------------------------------
(* The output of docker manifest inspect.  json: the output is JSON;        *)
(* typed: its manifests entries have the JSON types the decoder expects.   *)

Manifest(json, typed, manifests, layers) ==
    [json |-> json, typed |-> typed, manifests |-> manifests, layers |-> layers,
     digest |-> <<>>]

\* an entry of the layers array: {"size": n}, or an entry without a size
Layer(n) == [size |-> n]

NoSize == [mediaType |-> "layer"]

\* what a failed command leaves in CombinedOutput: diagnostic text
Diagnostic == Manifest(FALSE, FALSE, <<>>, <<>>)

Desc(arch, digest) == [architecture |-> arch, digest |-> <<"sha256", ":", digest>>]

\* the layers of the images s@sha256:<d>, by digest d
SizeFixture ==
    [d \in {"a", "b", "c", "d", "e", "f", "g", "h", "i", "j", "k", "l", "m", "n", "o"} |->
        CASE d = "a" -> <<>>
          [] d = "b" -> <<NoSize>>
          [] d = "c" -> <<Layer(1048576), Layer(2097152)>>
          [] d = "d" -> <<Layer(5), NoSize, Layer(7)>>
          [] d = "e" -> <<Layer(1023)>>
          [] d = "f" -> <<Layer(1024)>>
          [] d = "g" -> <<Layer(1048575)>>
          [] d = "h" -> <<Layer(1048576)>>
          [] d = "i" -> <<Layer(1073741823)>>
          [] d = "j" -> <<Layer(1073741824)>>
          [] d = "k" -> <<Layer(1073741824), Layer(134217728)>>
          [] d = "l" -> <<Layer(1610612736)>>
          [] d = "m" -> <<Layer(2147483647)>>
          [] d = "n" -> <<Layer(1073741824), NoSize, Layer(5368709)>>
          [] OTHER -> <<Layer(1073741824), Layer(5368710)>>]

SizeRef(d) == <<"s", "@", "sha256", ":", d>>

\* the registry: reference -> what a successful inspection prints
Registry ==
    [ref \in {<<"r", "@", "sha256", ":", "4">>,
              <<"r", ":", "t">>,
              <<"m", ":", "t">>,
              <<"m", "@", "sha256", ":", "1">>,
              <<"m", "@", "sha256", ":", "2">>,
              <<"m", "@", "sha256", ":", "3">>,
              <<"g">>,
              <<"g", ":", "t">>} \cup {SizeRef(d) : d \in DOMAIN SizeFixture} |->
        CASE ref = <<"r", "@", "sha256", ":", "4">> ->
                 Manifest(TRUE, TRUE, <<>>, <<Layer(1048576), Layer(2097152)>>)
          [] ref = <<"r", ":", "t">> ->
                 Manifest(TRUE, TRUE, <<>>, <<Layer(1073741824), Layer(134217728)>>)
          [] ref = <<"m", ":", "t">> ->
                 Manifest(TRUE, TRUE,
                          <<Desc("amd64", "1"), Desc("arm64", "2"), Desc("arm64", "3")>>,
                          <<>>)
          [] ref = <<"m", "@", "sha256", ":", "1">> ->
                 Manifest(TRUE, TRUE, <<>>, <<Layer(2048)>>)
          [] ref = <<"m", "@", "sha256", ":", "2">> ->
                 Manifest(TRUE, TRUE, <<>>, <<Layer(512), Layer(1024)>>)
          [] ref = <<"m", "@", "sha256", ":", "3">> ->
                 Manifest(TRUE, TRUE, <<>>, <<Layer(4096)>>)
          [] ref = <<"g">> ->
                 Manifest(FALSE, FALSE, <<>>, <<>>)
          [] ref = <<"g", ":", "t">> ->
                 Manifest(TRUE, FALSE, <<Desc("amd64", "1")>>, <<>>)
          [] OTHER ->
                 Manifest(TRUE, TRUE, <<>>, SizeFixture[ref[Len(ref)]])]

\* exec.Command("docker", "manifest", "inspect", ref).CombinedOutput(): any
\* run may fail; a run that succeeds prints what the registry holds
Docker(ref) ==
    {[err |-> TRUE, out |-> Diagnostic]}
        \cup (IF ref \in DOMAIN Registry
              THEN {[err |-> FALSE, out |-> Registry[ref]]}
              ELSE {})

\* the nodes of the cluster and their architectures
Nodes == [n \in {"n1", "n2"} |-> IF n = "n1" THEN "arm64" ELSE "riscv64"]

\* clientset.CoreV1().Nodes().Get: any lookup may fail
NodesGet(nodeName) ==
    {[err |-> TRUE, arch |-> ""]}
        \cup (IF nodeName \in DOMAIN Nodes
              THEN {[err |-> FALSE, arch |-> Nodes[nodeName]]}
              ELSE {})

-----------------------------------------------------------------------------
(* The helpers of getImageDetails *)

\* layer.Size after json.Unmarshal: an absent size leaves the zero value
LayerSize(layer) == IF "size" \in DOMAIN layer THEN layer.size ELSE 0

\* totalSize = layer.Size, the total overwritten and not added to
SumSizes_Last(layers) ==
    IF layers = <<>> THEN 0 ELSE LayerSize(layers[Len(layers)])

\* lines 294-297: totalSize += layer.Size over manifest.Layers
RECURSIVE SumSizes(_)
SumSizes(layers) ==
    IF layers = <<>> THEN 0 ELSE LayerSize(layers[1]) + SumSizes(Tail(layers))

\* isMultiArch: the output decodes and has at least one manifests entry
isMultiArch(manifestOutput) ==
    manifestOutput.json /\ Len(manifestOutput.manifests) > 0

\* the loop of lines 217-223: the digest of the first entry of the node's
\* architecture, "" when there is none
RECURSIVE archDigestOf_Last(_, _)
archDigestOf_Last(manifests, nodeArch) ==
    IF manifests = <<>> THEN <<>>
    ELSE IF manifests[Len(manifests)].architecture = nodeArch
    THEN manifests[Len(manifests)].digest
    ELSE archDigestOf_Last(SubSeq(manifests, 1, Len(manifests) - 1), nodeArch)

RECURSIVE archDigestOf_Any(_, _)
archDigestOf_Any(manifests, nodeArch) ==
    IF manifests = <<>> THEN <<>>
    ELSE IF manifests[1].architecture = nodeArch \/ Len(manifests) = 1
    THEN manifests[1].digest
    ELSE archDigestOf_Any(Tail(manifests), nodeArch)

RECURSIVE archDigestOf(_, _)
archDigestOf(manifests, nodeArch) ==
    IF manifests = <<>> THEN <<>>
    ELSE IF manifests[1].architecture = nodeArch THEN manifests[1].digest
    ELSE archDigestOf(Tail(manifests), nodeArch)

\* extractShaDigest
extractShaDigest(fullImage, manifestOutput) ==
    IF Contains(fullImage, ATSHA) /\ Cardinality(Occurrences(fullImage, ATSHA)) = 1
    THEN <<"sha256", ":">>
             \o Tail0(fullImage, Min(Occurrences(fullImage, ATSHA)) + Len(ATSHA) - 1)
    ELSE IF manifestOutput.json THEN manifestOutput.digest
    ELSE <<>>

\* inspectSingleArchImage, given what its docker command returned
inspectSingleArchImage(o, fullImage, containerName, cleanedImage, tag) ==
    IF o.err
    THEN [info |-> ZeroInfo, err |-> Err("docker manifest inspect failed", "", fullImage)]
    ELSE IF ~o.out.json
    THEN [info |-> ZeroInfo, err |-> Err("failed to parse manifest", "", fullImage)]
    ELSE LET totalSize == SumSizes(o.out.layers)
         IN  [info |-> [ContainerName |-> containerName,
                        ImageURI |-> cleanedImage,
                        Tag |-> tag,
                        ShaDigest |-> fullImage,
                        Size |-> formatSize(totalSize),
                        SizeBytes |-> totalSize],
              err |-> Nil]

\* fullImage as lines 172-181 build it from the parsed URI
FullImageOf_TagFirst(cleanedImage, tag, shaDigest) ==
    IF tag # <<>> /\ tag # NA THEN cleanedImage \o <<":">> \o tag
    ELSE IF shaDigest # <<>> THEN cleanedImage \o ATSHA \o shaDigest
    ELSE cleanedImage

FullImageOf(cleanedImage, tag, shaDigest) ==
    IF shaDigest # <<>>
    THEN cleanedImage \o ATSHA \o shaDigest
    ELSE IF tag # <<>> /\ tag # NA THEN cleanedImage \o <<":">> \o tag
    ELSE cleanedImage

HasDigest_Never(shaDigest) == FALSE

\* the test of line 173: the URI carries a digest
HasDigest(shaDigest) == shaDigest # <<>>

CachePut_Dropped(cache, cacheKey, imageInfo) == cache

\* imageCache[cacheKey] = imageInfo
CachePut(cache, cacheKey, imageInfo) ==
    [k \in DOMAIN cache \cup {cacheKey} |-> IF k = cacheKey THEN imageInfo ELSE cache[k]]

CacheFound_Never(cache, cacheKey) == FALSE

\* cachedInfo, found := imageCache[cacheKey]
CacheFound(cache, cacheKey) == cacheKey \in DOMAIN cache

CacheGet(cache, cacheKey) ==
    IF cacheKey \in DOMAIN cache THEN cache[cacheKey] ELSE ZeroInfo

-----------------------------------------------------------------------------
(* Inputs *)

\* the most pods the listings of one run return in total
MaxPods == 2

\* the namespaces of the cluster, in listing order
ClusterNamespaces == <<"ns1", "ns2">>

Main == "main"

\* the unlocked state of sync.Mutex
Free == ""

Procs == {Main}

\* the goroutines of a run that resolves images concurrently
Workers == {"w1", "w2"}

Container(name, image) == [Name |-> name, Image |-> image]

PodSpec(nodeName, initContainers, containers) ==
    [NodeName |-> nodeName, InitContainers |-> initContainers, Containers |-> containers]

uPin == <<"r", "@", "sha256", ":", "4">>

uPinM == <<"m", "@", "sha256", ":", "2">>

uMulti == <<"m", ":", "t">>

uTag == <<"r", ":", "t">>

uBare == <<"g">>

uBadList == <<"g", ":", "t">>

\* the pod specs the cluster may return
PodSpecs ==
    {PodSpec("n1", <<>>, <<>>),
     PodSpec("n1", <<Container("init1", uPin)>>, <<Container("c1", uPin)>>),
     PodSpec("n1", <<Container("init1", uMulti)>>, <<Container("c1", uPinM)>>),
     PodSpec("n1", <<>>, <<Container("c1", uPinM), Container("c2", uMulti)>>),
     PodSpec("n1", <<>>, <<Container("c1", uTag), Container("c2", uPin)>>),
     PodSpec("n2", <<>>, <<Container("c1", uPin), Container("c2", uMulti)>>),
     PodSpec("n1", <<Container("init1", uBare)>>, <<Container("c1", uPin)>>),
     PodSpec("n1", <<Container("init1", uPinM)>>, <<Container("c1", uPin)>>),
     PodSpec("n1", <<>>, <<Container("c1", uBadList)>>)}

ZeroPod == PodSpec("", <<>>, <<>>)

-----------------------------------------------------------------------------
(* Frames *)

IdleGid ==
    [pc |-> "idle", imageURI |-> <<>>, containerName |-> "", nodeName |-> "",
     cleanedImage |-> <<>>, tag |-> <<>>, shaDigest |-> <<>>, fullImage |-> <<>>,
     nodeArch |-> "", output |-> [err |-> FALSE, out |-> Diagnostic],
     found |-> FALSE, cachedInfo |-> ZeroInfo, imageInfo |-> ZeroInfo,
     ret |-> ZeroInfo, err |-> Nil,
     \* observations of the call, not program state
     lookups |-> 0, decoded |-> FALSE, preCached |-> FALSE,
     cacheAtCall |-> [k \in {} |-> ZeroInfo]]

\* the frame at the call getImageDetails(imageURI, containerName, pod, clientset)
CallGid(imageURI, containerName, nodeName) ==
    [IdleGid EXCEPT !.pc = "start", !.imageURI = imageURI,
                    !.containerName = containerName, !.nodeName = nodeName]

IdlePod ==
    [pc |-> "idle", namespace |-> "", podName |-> 0, pod |-> ZeroPod,
     currentContainer |-> 0, report |-> ZeroReport, ret |-> ZeroReport, err |-> Nil]

AllContainers_RegularFirst(pod) == pod.Containers \o pod.InitContainers

\* append(pod.Spec.InitContainers, pod.Spec.Containers...)
AllContainers(pod) == pod.InitContainers \o pod.Containers

IdleScan ==
    [pc |-> "idle", ns |-> "", pods |-> <<>>, i |-> 0, reports |-> <<>>,
     ret |-> <<>>, err |-> Nil]

IdleCluster ==
    [pc |-> "idle", namespaces |-> <<>>, nsIndex |-> 0, allReports |-> <<>>,
     ret |-> <<>>, err |-> Nil]

TypeOK ==
    /\ cacheMutex \in {Free} \cup DOMAIN gid
    /\ DOMAIN gid \in {Procs, Workers}
    /\ DOMAIN insp = DOMAIN gid
    /\ \A p \in DOMAIN gid : gid[p].pc \in
           {"idle", "start", "nodeget", "inspect1", "fallback", "lock1", "lookup",
            "unlock1", "inspect2", "lock2", "store", "unlock2", "ret", "panic",
            "hung"}
    /\ podf.pc \in {"idle", "get", "loop", "call", "ret"}
    /\ scan.pc \in {"idle", "list", "loop", "call", "ret"}
    /\ clf.pc \in {"idle", "list", "loop", "call", "ret"}
    /\ mainf.pc \in {"start", "pod", "namespace", "cluster", "render", "done", "exit1"}

\* the state after flag.Parse(): the pod name 0 and the namespace "" are the
\* flags' defaults, the empty string
Init ==
    /\ imageCache = [k \in {} |-> ZeroInfo]
    /\ cacheMutex = Free
    /\ gid = [p \in Procs |-> IdleGid]
    /\ insp = [p \in Procs |-> <<>>]
    /\ podf = IdlePod
    /\ scan = IdleScan
    /\ clf = IdleCluster
    /\ \E pn \in {0, 1}, ns \in {"", "ns1"}, all \in BOOLEAN :
           mainf = [pc |-> "start", podName |-> pn, namespace |-> ns,
                    allNamespaces |-> all, reports |-> <<>>,
                    rendered |-> FALSE, output |-> <<>>]
    /\ stderr = <<>>
    /\ outcomes = <<>>
    /\ resolved = [k \in {} |-> ZeroInfo]

-----------------------------------------------------------------------------
(* getImageDetails, one action per step between its external calls and its *)
(* lock operations                                                         *)

\* return (ret, err)
Return(f, ret, err) == [f EXCEPT !.pc = "ret", !.ret = ret, !.err = err]

\* lines 170-181: parse the URI and build fullImage
gid_Start(p) ==
    /\ gid[p].pc = "start"
    /\ LET f == [gid[p] EXCEPT !.cacheAtCall = imageCache]
           r == parseImageURI(f.imageURI)
           g == [f EXCEPT !.cleanedImage = r.cleanedImage, !.tag = r.tag,
                          !.shaDigest = r.shaDigest,
                          !.fullImage = FullImageOf(r.cleanedImage, r.tag, r.shaDigest)]
       IN  gid' = [gid EXCEPT ![p] =
                IF r.panic THEN [f EXCEPT !.pc = "panic"]
                ELSE IF HasDigest(r.shaDigest)
                THEN [g EXCEPT !.pc = "lock1",
                               !.preCached = g.fullImage \in DOMAIN imageCache]
                ELSE [g EXCEPT !.pc = "nodeget"]]
    /\ UNCHANGED <<imageCache, cacheMutex, insp, callers>>

\* lines 184-189: the architecture of the pod's node
gid_NodeGet(p) ==
    /\ gid[p].pc = "nodeget"
    /\ \E res \in NodesGet(gid[p].nodeName) :
           LET f == [gid[p] EXCEPT !.lookups = @ + 1]
           IN  gid' = [gid EXCEPT ![p] =
                    IF res.err
                    THEN Return(f, ZeroInfo, Err("failed to get node information", "", <<>>))
                    ELSE [f EXCEPT !.pc = "inspect1", !.nodeArch = res.arch]]
    /\ UNCHANGED <<imageCache, cacheMutex, insp, callers>>

\* lines 192-231: inspect the tag reference and resolve the architecture
gid_Inspect1(p) ==
    /\ gid[p].pc = "inspect1"
    /\ \E o \in Docker(gid[p].fullImage) :
           LET f == [gid[p] EXCEPT !.output = o, !.decoded = ~o.err]
               archDigest == archDigestOf(o.out.manifests, f.nodeArch)
           IN  /\ insp' = [insp EXCEPT ![p] =
                               Append(@, [ref |-> f.fullImage, ok |-> ~o.err])]
               /\ gid' = [gid EXCEPT ![p] =
                    IF o.err \/ ~isMultiArch(o.out)
                    THEN [f EXCEPT !.pc = "fallback"]
                    ELSE IF ~o.out.typed
                    THEN Return(f, ZeroInfo,
                                Err("failed to parse manifest list", "", f.fullImage))
                    ELSE IF archDigest = <<>>
                    THEN Return(f, ZeroInfo,
                                Err("no matching architecture", f.nodeArch, f.fullImage))
                    ELSE [f EXCEPT !.pc = "lock1", !.shaDigest = archDigest,
                                   !.fullImage = f.cleanedImage \o <<"@">> \o archDigest]]
    /\ UNCHANGED <<imageCache, cacheMutex, callers>>

\* lines 196-200: the fallback, inspectSingleArchImage on the same reference
gid_Fallback(p) ==
    /\ gid[p].pc = "fallback"
    /\ \E o \in Docker(gid[p].fullImage) :
           LET f == gid[p]
               r == inspectSingleArchImage(o, f.fullImage, f.containerName,
                                           f.cleanedImage, f.tag)
           IN  /\ insp' = [insp EXCEPT ![p] =
                               Append(@, [ref |-> f.fullImage, ok |-> ~o.err])]
               /\ gid' = [gid EXCEPT ![p] =
                    IF r.err = Nil
                    THEN Return(f, [r.info EXCEPT !.ShaDigest =
                                        extractShaDigest(f.fullImage, f.output.out)], Nil)
                    ELSE Return(f, r.info, r.err)]
    /\ UNCHANGED <<imageCache, cacheMutex, callers>>

\* a lock that does not wait for the holder
gid_Lock1_NoWait(p) ==
    /\ gid[p].pc = "lock1"
    /\ cacheMutex' = p
    /\ gid' = [gid EXCEPT ![p].pc = "lookup"]
    /\ UNCHANGED <<imageCache, insp, callers>>

\* line 235: cacheMutex.Lock()
gid_Lock1(p) ==
    /\ gid[p].pc = "lock1"
    /\ cacheMutex = Free
    /\ cacheMutex' = p
    /\ gid' = [gid EXCEPT ![p].pc = "lookup"]
    /\ UNCHANGED <<imageCache, insp, callers>>

\* line 236: cachedInfo, found := imageCache[cacheKey]
gid_Lookup(p) ==
    /\ gid[p].pc = "lookup"
    /\ gid' = [gid EXCEPT ![p].pc = "unlock1",
                          ![p].found = CacheFound(imageCache, gid[p].fullImage),
                          ![p].cachedInfo = CacheGet(imageCache, gid[p].fullImage)]
    /\ UNCHANGED <<imageCache, cacheMutex, insp, callers>>

\* a lookup whose hit is not used
gid_Unlock1_IgnoresHit(p) ==
    /\ gid[p].pc = "unlock1"
    /\ cacheMutex' = Free
    /\ gid' = [gid EXCEPT ![p].pc = "inspect2"]
    /\ UNCHANGED <<imageCache, insp, callers>>

\* a hit that returns without unlocking
gid_Unlock1_HitKeepsLock(p) ==
    /\ gid[p].pc = "unlock1"
    /\ cacheMutex' = IF gid[p].found THEN cacheMutex ELSE Free
    /\ gid' = [gid EXCEPT ![p] =
            IF gid[p].found THEN Return(gid[p], gid[p].cachedInfo, Nil)
            ELSE [gid[p] EXCEPT !.pc = "inspect2"]]
    /\ UNCHANGED <<imageCache, insp, callers>>

\* lines 237-240: cacheMutex.Unlock(), and return the cached record on a hit
gid_Unlock1(p) ==
    /\ gid[p].pc = "unlock1"
    /\ cacheMutex' = Free
    /\ gid' = [gid EXCEPT ![p] =
            IF gid[p].found THEN Return(gid[p], gid[p].cachedInfo, Nil)
            ELSE [gid[p] EXCEPT !.pc = "inspect2"]]
    /\ UNCHANGED <<imageCache, insp, callers>>

\* an inspection whose record is stored before its error is looked at
gid_Inspect2_CachesFailure(p) ==
    /\ gid[p].pc = "inspect2"
    /\ \E o \in Docker(gid[p].fullImage) :
           LET f == gid[p]
               r == inspectSingleArchImage(o, f.fullImage, f.containerName,
                                           f.cleanedImage, f.tag)
           IN  /\ insp' = [insp EXCEPT ![p] =
                               Append(@, [ref |-> f.fullImage, ok |-> ~o.err])]
               /\ imageCache' = CachePut(imageCache, f.fullImage, r.info)
               /\ gid' = [gid EXCEPT ![p] =
                    IF r.err # Nil THEN Return(f, ZeroInfo, r.err)
                    ELSE [f EXCEPT !.pc = "lock2",
                                   !.imageInfo = [r.info EXCEPT !.ShaDigest = f.shaDigest]]]
    /\ UNCHANGED <<cacheMutex, callers>>

\* lines 243-249: inspect the final reference
gid_Inspect2(p) ==
    /\ gid[p].pc = "inspect2"
    /\ \E o \in Docker(gid[p].fullImage) :
           LET f == gid[p]
               r == inspectSingleArchImage(o, f.fullImage, f.containerName,
                                           f.cleanedImage, f.tag)
           IN  /\ insp' = [insp EXCEPT ![p] =
                               Append(@, [ref |-> f.fullImage, ok |-> ~o.err])]
               /\ gid' = [gid EXCEPT ![p] =
                    IF r.err # Nil THEN Return(f, ZeroInfo, r.err)
                    ELSE [f EXCEPT !.pc = "lock2",
                                   !.imageInfo = [r.info EXCEPT !.ShaDigest = f.shaDigest]]]
    /\ UNCHANGED <<imageCache, cacheMutex, callers>>

\* line 252: cacheMutex.Lock()
gid_Lock2(p) ==
    /\ gid[p].pc = "lock2"
    /\ cacheMutex = Free
    /\ cacheMutex' = p
    /\ gid' = [gid EXCEPT ![p].pc = "store"]
    /\ UNCHANGED <<imageCache, insp, callers>>

\* line 253: imageCache[cacheKey] = imageInfo
gid_Store(p) ==
    /\ gid[p].pc = "store"
    /\ imageCache' = CachePut(imageCache, gid[p].fullImage, gid[p].imageInfo)
    /\ gid' = [gid EXCEPT ![p].pc = "unlock2"]
    /\ UNCHANGED <<cacheMutex, insp, callers>>

\* lines 254-256: cacheMutex.Unlock() and return imageInfo
gid_Unlock2(p) ==
    /\ gid[p].pc = "unlock2"
    /\ cacheMutex' = Free
    /\ gid' = [gid EXCEPT ![p] = Return(gid[p], gid[p].imageInfo, Nil)]
    /\ UNCHANGED <<imageCache, insp, callers>>

-----------------------------------------------------------------------------
(* getPodImageReport *)

\* line 147: clientset.CoreV1().Pods(namespace).Get; the pod may be gone
pod_Get ==
    /\ podf.pc = "get"
    /\ \/ podf' = [podf EXCEPT !.pc = "ret", !.ret = ZeroReport,
                               !.err = Err("pod not found", "", <<>>)]
       \/ \E spec \in PodSpecs :
              podf' = [podf EXCEPT !.pc = "loop", !.pod = spec,
                                   !.currentContainer = 0,
                                   !.report = [PodName |-> podf.podName,
                                               Namespace |-> podf.namespace,
                                               Images |-> <<>>]]
    /\ UNCHANGED <<imageCache, cacheMutex, gid, insp, scan, clf, mainf, stderr,
                   outcomes, resolved>>

\* lines 156-160 and 166: the next container, or the finished report
pod_Loop ==
    /\ podf.pc = "loop"
    /\ IF podf.currentContainer < Len(AllContainers(podf.pod))
       THEN LET container == AllContainers(podf.pod)[podf.currentContainer + 1]
            IN  /\ podf' = [podf EXCEPT !.pc = "call", !.currentContainer = @ + 1]
                /\ gid' = [gid EXCEPT ![Main] =
                               CallGid(container.Image, container.Name, podf.pod.NodeName)]
       ELSE /\ podf' = [podf EXCEPT !.pc = "ret", !.ret = podf.report, !.err = Nil]
            /\ UNCHANGED gid
    /\ UNCHANGED <<imageCache, cacheMutex, insp, scan, clf, mainf, stderr,
                   outcomes, resolved>>

\* a failed container is skipped and the loop goes on
pod_AfterCall_Skip ==
    /\ podf.pc = "call"
    /\ gid[Main].pc = "ret"
    /\ podf' = IF gid[Main].err # Nil
               THEN [podf EXCEPT !.pc = "loop"]
               ELSE [podf EXCEPT !.pc = "loop", !.report.Images = Append(@, gid[Main].ret)]
    /\ gid' = [gid EXCEPT ![Main] = IdleGid]
    /\ insp' = [insp EXCEPT ![Main] = <<>>]
    /\ UNCHANGED <<imageCache, cacheMutex, scan, clf, mainf, stderr, outcomes, resolved>>

\* lines 161-164: a failed container fails the pod, a resolved one is appended
pod_AfterCall ==
    /\ podf.pc = "call"
    /\ gid[Main].pc = "ret"
    /\ LET f == gid[Main]
       IN  /\ podf' = IF f.err # Nil
                      THEN [podf EXCEPT !.pc = "ret", !.ret = ZeroReport,
                                        !.err = Err("error retrieving image details",
                                                    f.err.arch, f.imageURI)]
                      ELSE [podf EXCEPT !.pc = "loop",
                                        !.report.Images = Append(@, f.ret)]
           /\ resolved' = IF f.err = Nil /\ parseImageURI(f.imageURI).shaDigest # <<>>
                             /\ f.fullImage \notin DOMAIN resolved
                          THEN [k \in DOMAIN resolved \cup {f.fullImage} |->
                                    IF k = f.fullImage THEN f.ret ELSE resolved[k]]
                          ELSE resolved
    /\ gid' = [gid EXCEPT ![Main] = IdleGid]
    /\ insp' = [insp EXCEPT ![Main] = <<>>]
    /\ UNCHANGED <<imageCache, cacheMutex, scan, clf, mainf, stderr, outcomes>>

-----------------------------------------------------------------------------
(* getNamespaceImageReportsForSingleNamespace *)

\* what is recorded of the getPodImageReport call that has just returned
Outcome ==
    [pod |-> podf.podName, ns |-> podf.namespace, ok |-> podf.err = Nil,
     containers |-> Len(AllContainers(podf.pod))]

PodsIn(ns, n) == [j \in 1..n |-> [Name |-> j, Namespace |-> ns]]

\* what Pods(ns).List may return when at most room pods are left to the run:
\* the pods of ns, or for ns = "" (metav1.NamespaceAll) the pods of every
\* namespace, namespace by namespace
PodsList(ns, room) ==
    IF ns = ""
    THEN {PodsIn(ClusterNamespaces[1], n1) \o PodsIn(ClusterNamespaces[2], n2) :
              <<n1, n2>> \in {c \in (0..room) \X (0..room) : c[1] + c[2] <= room}}
    ELSE {PodsIn(ns, n) : n \in 0..room}

\* lines 341-347: list the pods of the namespace; the listing may fail
scan_List ==
    /\ scan.pc = "list"
    /\ \/ scan' = [scan EXCEPT !.pc = "ret", !.ret = <<>>,
                               !.err = Err("error retrieving pods", "", <<>>)]
       \/ \E pods \in PodsList(scan.ns, MaxPods - Len(outcomes)) :
              scan' = [scan EXCEPT !.pc = "loop", !.i = 0, !.pods = pods]
    /\ UNCHANGED <<imageCache, cacheMutex, gid, insp, podf, clf, mainf, stderr,
                   outcomes, resolved>>

\* lines 349-353 and 360: the next pod, or the reports
scan_Loop ==
    /\ scan.pc = "loop"
    /\ IF scan.i < Len(scan.pods)
       THEN LET pod == scan.pods[scan.i + 1]
            IN  /\ scan' = [scan EXCEPT !.pc = "call", !.i = @ + 1]
                /\ podf' = [IdlePod EXCEPT !.pc = "get", !.namespace = pod.Namespace,
                                           !.podName = pod.Name]
       ELSE /\ scan' = [scan EXCEPT !.pc = "ret", !.ret = scan.reports, !.err = Nil]
            /\ UNCHANGED podf
    /\ UNCHANGED <<imageCache, cacheMutex, gid, insp, clf, mainf, stderr,
                   outcomes, resolved>>

\* a failed pod ends the scan with its error
scan_AfterPod_Abort ==
    /\ scan.pc = "call"
    /\ podf.pc = "ret"
    /\ scan' = IF podf.err # Nil
               THEN [scan EXCEPT !.pc = "ret", !.ret = <<>>, !.err = podf.err]
               ELSE [scan EXCEPT !.pc = "loop", !.reports = Append(@, podf.ret)]
    /\ outcomes' = Append(outcomes, Outcome)
    /\ podf' = IdlePod
    /\ UNCHANGED <<imageCache, cacheMutex, gid, insp, clf, mainf, stderr, resolved>>

\* lines 354-358: a failed pod is skipped with a warning, a report is appended
scan_AfterPod ==
    /\ scan.pc = "call"
    /\ podf.pc = "ret"
    /\ IF podf.err # Nil
       THEN /\ stderr' = Append(stderr, [kind |-> "Warning: skipping pod",
                                         pod |-> podf.podName, ns |-> scan.ns])
            /\ scan' = [scan EXCEPT !.pc = "loop"]
       ELSE /\ scan' = [scan EXCEPT !.pc = "loop", !.reports = Append(@, podf.ret)]
            /\ UNCHANGED stderr
    /\ outcomes' = Append(outcomes, Outcome)
    /\ podf' = IdlePod
    /\ UNCHANGED <<imageCache, cacheMutex, gid, insp, clf, mainf, resolved>>

-----------------------------------------------------------------------------
(* getNamespaceImageReports *)

\* lines 319-324: list the namespaces; the listing may fail
cluster_List ==
    /\ clf.pc = "list"
    /\ \/ clf' = [clf EXCEPT !.pc = "ret", !.ret = <<>>,
                             !.err = Err("error retrieving namespaces", "", <<>>)]
       \/ \E k \in 0..Len(ClusterNamespaces) :
              clf' = [clf EXCEPT !.pc = "loop", !.nsIndex = 0,
                                 !.namespaces = SubSeq(ClusterNamespaces, 1, k)]
    /\ UNCHANGED <<imageCache, cacheMutex, gid, insp, podf, scan, mainf, stderr,
                   outcomes, resolved>>

\* lines 326-330 and 337: the next namespace, or all the reports
cluster_Loop ==
    /\ clf.pc = "loop"
    /\ IF clf.nsIndex < Len(clf.namespaces)
       THEN /\ clf' = [clf EXCEPT !.pc = "call", !.nsIndex = @ + 1]
            /\ scan' = [IdleScan EXCEPT !.pc = "list",
                                        !.ns = clf.namespaces[clf.nsIndex + 1]]
       ELSE /\ clf' = [clf EXCEPT !.pc = "ret", !.ret = clf.allReports, !.err = Nil]
            /\ UNCHANGED scan
    /\ UNCHANGED <<imageCache, cacheMutex, gid, insp, podf, mainf, stderr,
                   outcomes, resolved>>

\* a cluster scan that puts the reports of a namespace before the others
cluster_AfterNamespace_Prepend ==
    /\ clf.pc = "call"
    /\ scan.pc = "ret"
    /\ IF scan.err # Nil
       THEN /\ stderr' = Append(stderr, [kind |-> "Warning: skipping namespace",
                                         pod |-> 0, ns |-> scan.ns])
            /\ clf' = [clf EXCEPT !.pc = "loop"]
       ELSE /\ clf' = [clf EXCEPT !.pc = "loop", !.allReports = scan.ret \o @]
            /\ UNCHANGED stderr
    /\ scan' = IdleScan
    /\ UNCHANGED <<imageCache, cacheMutex, gid, insp, podf, mainf, outcomes, resolved>>

\* lines 331-335: a namespace that failed is skipped with a warning
cluster_AfterNamespace ==
    /\ clf.pc = "call"
    /\ scan.pc = "ret"
    /\ IF scan.err # Nil
       THEN /\ stderr' = Append(stderr, [kind |-> "Warning: skipping namespace",
                                         pod |-> 0, ns |-> scan.ns])
            /\ clf' = [clf EXCEPT !.pc = "loop"]
       ELSE /\ clf' = [clf EXCEPT !.pc = "loop", !.allReports = @ \o scan.ret]
            /\ UNCHANGED stderr
    /\ scan' = IdleScan
    /\ UNCHANGED <<imageCache, cacheMutex, gid, insp, podf, mainf, outcomes, resolved>>

-----------------------------------------------------------------------------
(* main *)

Exit1(kind) ==
    /\ mainf' = [mainf EXCEPT !.pc = "exit1"]
    /\ stderr' = Append(stderr, [kind |-> kind, pod |-> mainf.podName,
                                 ns |-> mainf.namespace])

\* lines 79-112: check the flags, build the client, start the scope asked for
main_Start ==
    /\ mainf.pc = "start"
    /\ IF mainf.allNamespaces /\ mainf.podName # 0
       THEN /\ Exit1("Error: Cannot use --all-namespaces (-A) with a specific pod name.")
            /\ UNCHANGED <<podf, scan, clf>>
       ELSE \/ /\ Exit1("Error loading kubeconfig")
               /\ UNCHANGED <<podf, scan, clf>>
            \/ /\ mainf.podName # 0
               /\ mainf' = [mainf EXCEPT !.pc = "pod"]
               /\ podf' = [IdlePod EXCEPT !.pc = "get", !.namespace = mainf.namespace,
                                          !.podName = mainf.podName]
               /\ UNCHANGED <<scan, clf, stderr>>
            \/ /\ mainf.podName = 0 /\ mainf.allNamespaces
               /\ mainf' = [mainf EXCEPT !.pc = "cluster"]
               /\ clf' = [IdleCluster EXCEPT !.pc = "list"]
               /\ UNCHANGED <<podf, scan, stderr>>
            \/ /\ mainf.podName = 0 /\ ~mainf.allNamespaces
               /\ mainf' = [mainf EXCEPT !.pc = "namespace"]
               /\ scan' = [IdleScan EXCEPT !.pc = "list", !.ns = mainf.namespace]
               /\ UNCHANGED <<podf, clf, stderr>>
    /\ UNCHANGED <<imageCache, cacheMutex, gid, insp, outcomes, resolved>>

\* a failed pod is warned about and the run renders what it has
main_AfterPod_Warn ==
    /\ mainf.pc = "pod"
    /\ podf.pc = "ret"
    /\ IF podf.err # Nil
       THEN /\ mainf' = [mainf EXCEPT !.pc = "render"]
            /\ stderr' = Append(stderr, [kind |-> "Warning: skipping pod",
                                         pod |-> podf.podName, ns |-> podf.namespace])
       ELSE /\ mainf' = [mainf EXCEPT !.pc = "render", !.reports = <<podf.ret>>]
            /\ UNCHANGED stderr
    /\ outcomes' = Append(outcomes, Outcome)
    /\ podf' = IdlePod
    /\ UNCHANGED <<imageCache, cacheMutex, gid, insp, scan, clf, resolved>>

\* lines 101-106: the single pod's report, or exit 1
main_AfterPod ==
    /\ mainf.pc = "pod"
    /\ podf.pc = "ret"
    /\ IF podf.err # Nil
       THEN Exit1("Error retrieving pod data")
       ELSE /\ mainf' = [mainf EXCEPT !.pc = "render", !.reports = <<podf.ret>>]
            /\ UNCHANGED stderr
    /\ outcomes' = Append(outcomes, Outcome)
    /\ podf' = IdlePod
    /\ UNCHANGED <<imageCache, cacheMutex, gid, insp, scan, clf, resolved>>

\* lines 111-116: the reports of the namespace, or exit 1
main_AfterNamespace ==
    /\ mainf.pc = "namespace"
    /\ scan.pc = "ret"
    /\ IF scan.err # Nil
       THEN Exit1("Error retrieving namespace data")
       ELSE /\ mainf' = [mainf EXCEPT !.pc = "render", !.reports = scan.ret]
            /\ UNCHANGED stderr
    /\ scan' = IdleScan
    /\ UNCHANGED <<imageCache, cacheMutex, gid, insp, podf, clf, outcomes, resolved>>

\* lines 109 and 113-116: the reports of the cluster, or exit 1
main_AfterCluster ==
    /\ mainf.pc = "cluster"
    /\ clf.pc = "ret"
    /\ IF clf.err # Nil
       THEN Exit1("Error retrieving namespace data")
       ELSE /\ mainf' = [mainf EXCEPT !.pc = "render", !.reports = clf.ret]
            /\ UNCHANGED stderr
    /\ clf' = IdleCluster
    /\ UNCHANGED <<imageCache, cacheMutex, gid, insp, podf, scan, outcomes, resolved>>

\* lines 119-126: hand the reports to the renderer
main_Render ==
    /\ mainf.pc = "render"
    /\ mainf' = [mainf EXCEPT !.pc = "done", !.rendered = TRUE, !.output = mainf.reports]
    /\ UNCHANGED <<imageCache, cacheMutex, gid, insp, podf, scan, clf, stderr,
                   outcomes, resolved>>

-----------------------------------------------------------------------------

Next ==
    \/ gid_Start(Main)
    \/ gid_NodeGet(Main)
    \/ gid_Inspect1(Main)
    \/ gid_Fallback(Main)
    \/ gid_Lock1(Main)
    \/ gid_Lookup(Main)
    \/ gid_Unlock1(Main)
    \/ gid_Inspect2(Main)
    \/ gid_Lock2(Main)
    \/ gid_Store(Main)
    \/ gid_Unlock2(Main)
    \/ pod_Get
    \/ pod_Loop
    \/ pod_AfterCall
    \/ scan_List
    \/ scan_Loop
    \/ scan_AfterPod
    \/ cluster_List
    \/ cluster_Loop
    \/ cluster_AfterNamespace
    \/ main_Start
    \/ main_AfterPod
    \/ main_AfterNamespace
    \/ main_AfterCluster
    \/ main_Render

Spec == Init /\ [][Next]_vars

-----------------------------------------------------------------------------
(* Concurrent callers: getImageDetails guards imageCache with cacheMutex so  *)
(* that several goroutines may resolve images at once.  Two workers each    *)
(* make one call; the calls interleave at every external call and at every *)
(* lock operation.                                                         *)

uTagPin == <<"r", ":", "t", "@", "sha256", ":", "4">>

\* the calls a worker may make
ConcCalls ==
    {CallGid(uPin, "c1", "n1"),
     CallGid(uPin, "c2", "n1"),
     CallGid(uTagPin, "c3", "n1"),
     CallGid(uPinM, "c1", "n1"),
     CallGid(uMulti, "c2", "n1"),
     CallGid(uTag, "c1", "n1"),
     CallGid(uBare, "c1", "n1")}

InitConc ==
    /\ imageCache = [k \in {} |-> ZeroInfo]
    /\ cacheMutex = Free
    /\ gid \in [Workers -> ConcCalls]
    /\ insp = [p \in Workers |-> <<>>]
    /\ podf = IdlePod
    /\ scan = IdleScan
    /\ clf = IdleCluster
    /\ mainf = [pc |-> "namespace", podName |-> 0, namespace |-> "",
                allNamespaces |-> FALSE, reports |-> <<>>,
                rendered |-> FALSE, output |-> <<>>]
    /\ stderr = <<>>
    /\ outcomes = <<>>
    /\ resolved = [k \in {} |-> ZeroInfo]

NextConc ==
    \E p \in Workers :
        \/ gid_Start(p)
        \/ gid_NodeGet(p)
        \/ gid_Inspect1(p)
        \/ gid_Fallback(p)
        \/ gid_Lock1(p)
        \/ gid_Lookup(p)
        \/ gid_Unlock1(p)
        \/ gid_Inspect2(p)
        \/ gid_Lock2(p)
        \/ gid_Store(p)
        \/ gid_Unlock2(p)

SpecConc == InitConc /\ [][NextConc]_vars

-----------------------------------------------------------------------------
(* parseImageURI on its own: container.Image is whatever string the pod     *)
(* spec holds, so the call of line 170 is made on every string over the    *)
(* characters that matter to the pattern, and on two references whose      *)
(* registry has a port.                                                    *)

\* the longest URI taken from URIChars
MaxURILen == 5

URIChars == {"r", ":", "@", "sha256", "/", "\n"}

\* registry:5000/repo:tag and registry:5000/repo@sha256:<hex>
uPortTag == <<"r", ":", "5", "/", "a", ":", "t">>

uPortPin == <<"r", ":", "5", "/", "a", "@", "sha256", ":", "4">>

\* user@host:tag@sha256:<hex>
uAtTagPin == <<"u", "@", "h", ":", "t", "@", "sha256", ":", "4">>

URIs ==
    UNION {[1..n -> URIChars] : n \in 0..MaxURILen}
        \cup {uPortTag, uPortPin, uAtTagPin, uPin, uTagPin, uTag, uBare}

InitParse ==
    /\ imageCache = [k \in {} |-> ZeroInfo]
    /\ cacheMutex = Free
    /\ \E imageURI \in URIs : gid = [p \in Procs |-> CallGid(imageURI, "c1", "n1")]
    /\ insp = [p \in Procs |-> <<>>]
    /\ podf = [IdlePod EXCEPT !.pc = "call"]
    /\ scan = IdleScan
    /\ clf = IdleCluster
    /\ mainf = [pc |-> "pod", podName |-> 1, namespace |-> "",
                allNamespaces |-> FALSE, reports |-> <<>>,
                rendered |-> FALSE, output |-> <<>>]
    /\ stderr = <<>>
    /\ outcomes = <<>>
    /\ resolved = [k \in {} |-> ZeroInfo]

NextParse == gid_Start(Main)

SpecParse == InitParse /\ [][NextParse]_vars

-----------------------------------------------------------------------------
(* The size of an image: one call of getImageDetails for each of the        *)
(* digest-pinned images s@sha256:<d>, whose manifests have the layers of    *)
(* SizeFixture.                                                            *)

InitSize ==
    /\ imageCache = [k \in {} |-> ZeroInfo]
    /\ cacheMutex = Free
    /\ \E d \in DOMAIN SizeFixture :
           gid = [p \in Procs |-> CallGid(SizeRef(d), "c1", "n1")]
    /\ insp = [p \in Procs |-> <<>>]
    /\ podf = [IdlePod EXCEPT !.pc = "call"]
    /\ scan = IdleScan
    /\ clf = IdleCluster
    /\ mainf = [pc |-> "pod", podName |-> 1, namespace |-> "",
                allNamespaces |-> FALSE, reports |-> <<>>,
                rendered |-> FALSE, output |-> <<>>]
    /\ stderr = <<>>
    /\ outcomes = <<>>
    /\ resolved = [k \in {} |-> ZeroInfo]

NextSize ==
    \/ gid_Start(Main)
    \/ gid_Lock1(Main)
    \/ gid_Lookup(Main)
    \/ gid_Unlock1(Main)
    \/ gid_Inspect2(Main)
    \/ gid_Lock2(Main)
    \/ gid_Store(Main)
    \/ gid_Unlock2(Main)

SpecSize == InitSize /\ [][NextSize]_vars

-----------------------------------------------------------------------------
(* A docker command that never exits.  cmd.CombinedOutput() waits for the   *)
(* command without a context or a timeout (exec.Command, not               *)
(* exec.CommandContext), and the run installs no signal handler.           *)

\* lines 193 and 279: CombinedOutput() does not return
gid_Hang(p) ==
    /\ gid[p].pc \in {"inspect1", "fallback", "inspect2"}
    /\ gid' = [gid EXCEPT ![p].pc = "hung"]
    /\ UNCHANGED <<imageCache, cacheMutex, insp, callers>>

NextHang ==
    \/ Next
    \/ gid_Hang(Main)

SpecHang == Init /\ [][NextHang]_vars

\* two callers, either of whose inspections may never return
NextConcHang ==
    \/ NextConc
    \/ \E p \in Workers : gid_Hang(p)

SpecConcHang == InitConc /\ [][NextConcHang]_vars

-----------------------------------------------------------------------------
(* Properties *)

Range(seq) == {seq[i] : i \in DOMAIN seq}

\* the URI of the call carries a digest of its own
Pinned(f) == parseImageURI(f.imageURI).shaDigest # <<>>

\* the reference a digest-carrying URI pins: repository@sha256:<digest>
PinnedRef(f) ==
    parseImageURI(f.imageURI).cleanedImage \o ATSHA \o parseImageURI(f.imageURI).shaDigest

\* the call has gone past its first inspection of a tag-only reference
PastFirstInspection(f) ==
    ~Pinned(f) /\ f.pc \notin {"idle", "start", "nodeget", "inspect1", "panic"}

\* that first inspection succeeded and printed a well-formed manifest list
SawManifestList(f) ==
    /\ PastFirstInspection(f)
    /\ ~f.output.err
    /\ f.output.out.json /\ f.output.out.typed
    /\ Len(f.output.out.manifests) >= 1

\* the positions of the descriptors of the node's architecture
Matching(f) ==
    {i \in DOMAIN f.output.out.manifests :
        f.output.out.manifests[i].architecture = f.nodeArch}

\* every report handed on by getPodImageReport: collected by a scan, returned
\* by a scan, gathered by main
Emitted ==
    Range(scan.reports) \cup Range(scan.ret) \cup Range(clf.allReports)
        \cup Range(clf.ret) \cup Range(mainf.reports) \cup Range(mainf.output)

\* C1: a pod one of whose containers failed to resolve yields an error and the
\* empty report; every report returned or handed on holds one image for each
\* container the pod declares
C1_NoPartialPodReport ==
    /\ podf.pc = "ret" =>
           IF podf.err = Nil
           THEN /\ podf.ret.PodName = podf.podName
                /\ Len(podf.ret.Images) = Len(AllContainers(podf.pod))
           ELSE podf.ret = ZeroReport
    /\ \A r \in Emitted :
           \E i \in DOMAIN outcomes :
               /\ outcomes[i].pod = r.PodName /\ outcomes[i].ns = r.Namespace
               /\ outcomes[i].ok
               /\ Len(r.Images) = outcomes[i].containers

\* C1: the second of two containers failed after the first had resolved
C1_Witness ==
    /\ podf.pc = "ret" /\ podf.err # Nil /\ podf.ret = ZeroReport
    /\ podf.currentContainer = 2 /\ Len(podf.report.Images) = 1

PodWarnings == SelectSeq(stderr, LAMBDA w : w.kind = "Warning: skipping pod")

\* the pods of a listing whose report resolved / failed, by position
Visited(pods, ok) ==
    {j \in DOMAIN pods :
        \E i \in DOMAIN outcomes :
            /\ outcomes[i].pod = pods[j].Name /\ outcomes[i].ns = pods[j].Namespace
            /\ outcomes[i].ok = ok}

\* C2: a scan whose listing succeeded returns success whatever its pods did:
\* one report for each pod that resolved, none for a pod that failed, and one
\* warning for each pod that failed
C2_FailedPodSkippedWithWarning ==
    /\ scan.pc = "ret" /\ scan.err # Nil => scan.pods = <<>>
    /\ scan.pc = "ret" /\ scan.err = Nil =>
           /\ scan.i = Len(scan.pods)
           /\ Visited(scan.pods, TRUE) \cup Visited(scan.pods, FALSE) = DOMAIN scan.pods
           /\ Visited(scan.pods, TRUE) \cap Visited(scan.pods, FALSE) = {}
           /\ Len(scan.ret) = Cardinality(Visited(scan.pods, TRUE))
           /\ \A j \in Visited(scan.pods, TRUE) :
                  Cardinality({k \in DOMAIN scan.ret :
                                   /\ scan.ret[k].PodName = scan.pods[j].Name
                                   /\ scan.ret[k].Namespace = scan.pods[j].Namespace}) = 1
           /\ \A j \in Visited(scan.pods, FALSE) :
                  \A k \in DOMAIN scan.ret :
                      ~(/\ scan.ret[k].PodName = scan.pods[j].Name
                        /\ scan.ret[k].Namespace = scan.pods[j].Namespace)
    /\ mainf.podName = 0 =>
           Len(PodWarnings) = Cardinality({i \in DOMAIN outcomes : ~outcomes[i].ok})
    /\ clf.pc = "ret" /\ clf.err = Nil =>
           Len(clf.ret) = Cardinality({i \in DOMAIN outcomes : outcomes[i].ok})

\* C2: a scan of two pods ended with one report and one warning
C2_Witness ==
    /\ scan.pc = "ret" /\ scan.err = Nil
    /\ Len(scan.pods) = 2 /\ Len(scan.ret) = 1 /\ Len(PodWarnings) = 1

\* C3: a digest-pinned reference that has resolved before resolves again to
\* the identical record without any inspection
C3_SecondResolutionFromCache ==
    \A p \in Procs :
        LET f == gid[p]
        IN  Pinned(f) /\ PinnedRef(f) \in DOMAIN resolved =>
                /\ insp[p] = <<>>
                /\ f.pc \notin {"inspect2", "lock2", "store", "unlock2"}
                /\ f.pc = "ret" => f.err = Nil /\ f.ret = resolved[PinnedRef(f)]

\* C3: the second resolution of a pinned reference has returned
C3_Witness ==
    \E p \in Procs :
        /\ gid[p].pc = "ret" /\ Pinned(gid[p])
        /\ PinnedRef(gid[p]) \in DOMAIN resolved
        /\ gid[p].containerName # resolved[PinnedRef(gid[p])].ContainerName

\* C4: when the tag's manifest list has a descriptor of the node's
\* architecture, the call goes on with repository@<digest of the first such
\* descriptor>: that is its cache key, the only reference it inspects after
\* the tag, and the digest of the record it builds
C4_FirstMatchingDescriptor ==
    \A p \in Procs :
        LET f == gid[p]
            d == f.output.out.manifests[Min(Matching(f))].digest
        IN  SawManifestList(f) /\ Matching(f) # {} =>
                /\ f.pc # "fallback"
                /\ f.shaDigest = d
                /\ f.fullImage = f.cleanedImage \o <<"@">> \o d
                /\ \A i \in 2..Len(insp[p]) : insp[p][i].ref = f.cleanedImage \o <<"@">> \o d
                /\ f.pc = "ret" /\ f.err = Nil /\ ~f.found =>
                       /\ Len(insp[p]) = 2
                       /\ f.ret.ShaDigest = d

\* C4: descriptors amd64, arm64, arm64 on an arm64 node resolved to the second
C4_Witness ==
    \E p \in Procs :
        /\ gid[p].pc = "ret" /\ gid[p].err = Nil /\ ~gid[p].found
        /\ SawManifestList(gid[p]) /\ Cardinality(Matching(gid[p])) = 2
        /\ Min(Matching(gid[p])) = 2
        /\ gid[p].nodeArch = "arm64"
        /\ gid[p].fullImage = <<"m", "@", "sha256", ":", "2">>

\* C5: when the tag's manifest list has no descriptor of the node's
\* architecture the call fails with the no-matching-architecture error naming
\* that architecture, and returns no record
C5_NoMatchingArchitectureFails ==
    \A p \in Procs :
        LET f == gid[p]
        IN  SawManifestList(f) /\ Matching(f) = {} =>
                /\ f.pc = "ret"
                /\ f.err = Err("no matching architecture", f.nodeArch, f.fullImage)
                /\ f.ret = ZeroInfo
                /\ Len(insp[p]) = 1

\* C5: a riscv64 node met a list of amd64 and arm64 descriptors
C5_Witness ==
    \E p \in Procs :
        /\ SawManifestList(gid[p]) /\ Matching(gid[p]) = {}
        /\ gid[p].pc = "ret" /\ gid[p].err.arch = "riscv64"

\* C6: every call that returns a record leaves that record in the cache under
\* its final reference
C6_SuccessIsCached ==
    \A p \in Procs :
        gid[p].pc = "ret" /\ gid[p].err = Nil =>
            /\ gid[p].fullImage \in DOMAIN imageCache
            /\ imageCache[gid[p].fullImage] = gid[p].ret

\* C7: within one call a reference whose inspection failed is not inspected again
C7_NoRetryAfterFailure ==
    \A p \in Procs :
        \A i, j \in DOMAIN insp[p] :
            i < j /\ ~insp[p][i].ok => insp[p][j].ref # insp[p][i].ref

\* C8: a call for a URI that carries a digest looks up no node and decodes no
\* manifest list; it inspects nothing but repository@sha256:<digest>, once on
\* a cache miss, and the record's size is the sum of that manifest's layers
C8_PinnedSkipsArchitectureResolution ==
    \A p \in Procs :
        LET f == gid[p]
        IN  Pinned(f) /\ f.pc \notin {"idle", "start", "panic"} =>
                /\ f.lookups = 0 /\ ~f.decoded
                /\ f.pc \notin {"nodeget", "inspect1", "fallback"}
                /\ f.fullImage = PinnedRef(f)
                /\ Len(insp[p]) <= 1
                /\ \A i \in DOMAIN insp[p] : insp[p][i].ref = PinnedRef(f)
                /\ f.pc = "ret" /\ f.found => insp[p] = <<>>
                /\ f.pc = "ret" /\ ~f.found => Len(insp[p]) = 1
                /\ f.pc = "ret" /\ ~f.found /\ f.err = Nil =>
                       /\ f.ret.SizeBytes = SumSizes(Registry[PinnedRef(f)].layers)
                       /\ f.ret.Size = formatSize(f.ret.SizeBytes)

\* C8: a pinned URI missed the cache and resolved with its one inspection
C8_Witness ==
    \E p \in Procs :
        /\ gid[p].pc = "ret" /\ Pinned(gid[p]) /\ ~gid[p].found /\ gid[p].err = Nil
        /\ gid[p].ret.SizeBytes = 3145728
        /\ gid[p].ret.Size = [whole |-> 3, hundredths |-> 0, unit |-> "MB"]

\* C9: a call for a digest-carrying URI whose reference is in the cache when
\* the call starts returns the cached record and inspects nothing
C9_CacheBeforeInspection ==
    \A p \in Procs :
        LET f == gid[p]
        IN  Pinned(f) /\ f.preCached =>
                /\ insp[p] = <<>>
                /\ f.pc \in {"lock1", "lookup", "unlock1", "ret"}
                /\ f.pc = "ret" =>
                       f.err = Nil /\ f.found /\ f.ret = imageCache[f.fullImage]

\* C9: a pinned call that found its reference cached has returned
C9_Witness ==
    \E p \in Procs :
        gid[p].pc = "ret" /\ Pinned(gid[p]) /\ gid[p].preCached /\ insp[p] = <<>>

\* C10: when the first inspection of a tag-only reference prints a manifest
\* with no platform descriptors, the call makes no other inspection and the
\* size of the record is the sum of the layers of that output
C10_SingleArchUsesFirstBytes ==
    \A p \in Procs :
        LET f == gid[p]
        IN  /\ PastFirstInspection(f)
            /\ ~f.output.err /\ f.output.out.json
            /\ Len(f.output.out.manifests) = 0
            => /\ Len(insp[p]) = 1
               /\ f.pc = "ret" /\ f.err = Nil =>
                      f.ret.SizeBytes = SumSizes(f.output.out.layers)

\* the container a pod spec declares at position i, init containers first
Declared(pod, i) ==
    IF i <= Len(pod.InitContainers) THEN pod.InitContainers[i]
    ELSE pod.Containers[i - Len(pod.InitContainers)]

\* C13: the images of a pod's report follow the declared order, init
\* containers first and regular containers after them: the i-th image is the
\* record resolved for the i-th declared container, and a report that is
\* returned holds one image for each declared container
C13_InitFirstDeclaredOrder ==
    LET images == IF podf.pc = "ret" THEN podf.ret.Images ELSE podf.report.Images
        declared == Len(podf.pod.InitContainers) + Len(podf.pod.Containers)
    IN  /\ Len(images) <= declared
        /\ \A i \in DOMAIN images :
               images[i].ImageURI = parseImageURI(Declared(podf.pod, i).Image).cleanedImage
        /\ podf.pc = "ret" /\ podf.err = Nil => Len(images) = declared

\* C13: a pod with an init container and a regular container of different
\* repositories has been reported
C13_Witness ==
    /\ podf.pc = "ret" /\ podf.err = Nil
    /\ Len(podf.pod.InitContainers) = 1 /\ Len(podf.pod.Containers) = 1
    /\ podf.ret.Images[1].ImageURI = <<"m">>
    /\ podf.ret.Images[2].ImageURI = <<"r">>

InCritical(p) == gid[p].pc \in {"lookup", "unlock1", "store", "unlock2"}

\* C12: a caller that reads or writes the cache holds the mutex, so no two
\* callers are at the map at once; and every entry of the cache is the whole
\* record that one caller built for that key from the manifest of that key
C12_CacheAccessUnderMutex ==
    /\ \A p \in DOMAIN gid : InCritical(p) => cacheMutex = p
    /\ \A p, q \in DOMAIN gid : InCritical(p) /\ InCritical(q) => p = q
    /\ \A k \in DOMAIN imageCache :
           /\ \E p \in DOMAIN gid :
                  /\ gid[p].pc \in {"unlock2", "ret"}
                  /\ gid[p].fullImage = k
                  /\ gid[p].imageInfo = imageCache[k]
           /\ k \in DOMAIN Registry
           /\ imageCache[k].SizeBytes = SumSizes(Registry[k].layers)
           /\ k \in {imageCache[k].ImageURI \o <<"@">> \o imageCache[k].ShaDigest,
                      imageCache[k].ImageURI \o ATSHA \o imageCache[k].ShaDigest}

\* C12: two callers raced on one uncached key, both inspected it and both
\* stored their record
C12_Witness ==
    /\ DOMAIN gid = Workers
    /\ \A p \in Workers :
           /\ gid[p].pc = "ret" /\ gid[p].err = Nil /\ ~gid[p].found
           /\ gid[p].fullImage = uPin
           /\ insp[p] = <<[ref |-> uPin, ok |-> TRUE]>>
    /\ uPin \in DOMAIN imageCache

\* the call has parsed its URI, or panicked doing so
Parsed(f) == f.pc \notin {"idle", "start"}

NoColon(s) == \A i \in 1..Len(s) : s[i] # ":"

\* the position of the first '@' of s, Len(s) + 1 when it has none
FirstAt(s) == Min({i \in 1..Len(s) : s[i] = "@"} \cup {Len(s) + 1})

\* C14: for every URI that holds @sha256: followed by some text, the parse
\* returns, the digest is all the text after @sha256:, and the tag, when
\* there is one, is not taken from text that follows an '@'
C14_DigestIsTextAfterMarker ==
    \A p \in DOMAIN gid :
        LET f == gid[p]
            s == f.imageURI
            hex == Tail0(s, Min(Occurrences(s, ATSHA)) + Len(ATSHA) - 1)
        IN  Parsed(f) /\ Contains(s, ATSHA) /\ hex # <<>> =>
                /\ f.pc # "panic"
                /\ f.shaDigest = hex
                /\ f.tag # NA => NoAt(f.cleanedImage)

\* C15: every URI repo:tag, the tag being non-empty text without ':' or '@'
\* and the repository text without '@', parses to that repository, that tag
\* and no digest; a URI without ':' and '@' parses to itself as repository,
\* the tag N/A and no digest
C15_RepoTagForm ==
    \A p \in DOMAIN gid :
        LET f == gid[p]
            s == f.imageURI
        IN  Parsed(f) /\ NoAt(s) =>
                /\ \A c \in 1..(Len(s) - 1) :
                       s[c] = ":" /\ NoColon(Tail0(s, c)) =>
                           /\ f.pc # "panic"
                           /\ f.cleanedImage = SubSeq(s, 1, c - 1)
                           /\ f.tag = Tail0(s, c)
                           /\ f.shaDigest = <<>>
                /\ NoColon(s) =>
                       /\ f.pc # "panic"
                       /\ f.cleanedImage = s
                       /\ f.tag = NA /\ f.tag # <<>>
                       /\ f.shaDigest = <<>>

\* C16: in a URI that parses, the tag is the text between the last ':' before
\* any '@' and that '@' (or the end), the repository is everything before
\* that colon, and a colon that a '/' follows, the colon of a registry port,
\* does not start the tag
C16_LastColonStartsTag ==
    \A p \in DOMAIN gid :
        LET f == gid[p]
            s == f.imageURI
            at == FirstAt(s)
            colons == {i \in 1..(at - 2) : s[i] = ":"}
        IN  Parsed(f) /\ f.pc # "panic" =>
                /\ colons # {} /\ NoAt(s) =>
                       /\ f.cleanedImage = SubSeq(s, 1, Max(colons) - 1)
                       /\ f.tag = SubSeq(s, Max(colons) + 1, at - 1)
                /\ f.tag # NA => \A i \in 1..Len(f.tag) : f.tag[i] # "/"

\* C17: the parse of every string returns; a string without ':' comes back
\* whole as the repository, with no tag and no digest
C17_ParserIsTotal ==
    \A p \in DOMAIN gid :
        LET f == gid[p]
        IN  Parsed(f) =>
                /\ f.pc # "panic"
                /\ NoColon(f.imageURI) =>
                       /\ f.cleanedImage = f.imageURI
                       /\ f.tag = NA
                       /\ f.shaDigest = <<>>

\* the call inspected its reference once, with success, and has returned
SizedCall(p) ==
    /\ gid[p].pc = "ret"
    /\ Len(insp[p]) = 1 /\ insp[p][1].ok
    /\ insp[p][1].ref \in DOMAIN Registry

\* the sizes the layers array states, an entry without size counting 0
StatedSizes(layers) ==
    [i \in DOMAIN layers |-> IF "size" \in DOMAIN layers[i] THEN layers[i].size ELSE 0]

\* the sum of the first n numbers of sizes
RECURSIVE SumTo(_, _)
SumTo(sizes, n) == IF n = 0 THEN 0 ELSE SumTo(sizes, n - 1) + sizes[n]

\* C18: a call whose inspection printed a manifest returns without error a
\* record whose SizeBytes is the sum of the sizes its layers state, an entry
\* without size counting 0 and no layers giving 0; the layers 1048576 and
\* 2097152 give 3145728, shown as 3 MB
C18_SizeIsSumOfLayers ==
    \A p \in DOMAIN gid :
        SizedCall(p) =>
            LET layers == Registry[insp[p][1].ref].layers
            IN  /\ gid[p].err = Nil
                /\ gid[p].ret.SizeBytes = SumTo(StatedSizes(layers), Len(layers))
                /\ layers = <<>> => gid[p].ret.SizeBytes = 0
                /\ layers = <<[size |-> 1048576], [size |-> 2097152]>> =>
                       /\ gid[p].ret.SizeBytes = 3145728
                       /\ gid[p].ret.Size = [whole |-> 3, hundredths |-> 0, unit |-> "MB"]

\* C18: the manifest with the layers 5, no size, 7 has been sized as 12
C18_Witness ==
    \E p \in DOMAIN gid :
        /\ SizedCall(p) /\ gid[p].err = Nil
        /\ Len(Registry[insp[p][1].ref].layers) = 3
        /\ \E i \in 1..3 : "size" \notin DOMAIN Registry[insp[p][1].ref].layers[i]
        /\ gid[p].ret.SizeBytes = 12

\* the whole hundredths of b / 1073741824
FloorHundredths(b) ==
    LET rem == b % 1073741824
    IN  100 * (b \div 1073741824)
            + ((rem \div 1024) * 100 + ((rem % 1024) * 100) \div 1024) \div 1048576

\* C19: the Size of a record shows its SizeBytes in one of three bands: below
\* 1048576 as whole KB, bytes / 1024 truncated; below 1073741824 as whole MB,
\* bytes / 1048576 truncated; from 1073741824 on as GB with two decimals, the
\* hundredth below or above the exact value
C19_ThreeBands ==
    \A p \in DOMAIN gid :
        gid[p].pc = "ret" /\ gid[p].err = Nil =>
            LET b == gid[p].ret.SizeBytes
                size == gid[p].ret.Size
            IN  /\ b < 1048576 =>
                       size = [whole |-> b \div 1024, hundredths |-> 0, unit |-> "KB"]
                /\ b >= 1048576 /\ b < 1073741824 =>
                       size = [whole |-> b \div 1048576, hundredths |-> 0, unit |-> "MB"]
                /\ b >= 1073741824 =>
                       /\ size.unit = "GB"
                       /\ size.hundredths \in 0..99
                       /\ 100 * size.whole + size.hundredths \in
                              {FloorHundredths(b), FloorHundredths(b) + 1}

\* C19: an image of exactly 1073741824 bytes is shown as 1.00 GB
C19_Witness ==
    \E p \in DOMAIN gid :
        /\ gid[p].pc = "ret" /\ gid[p].err = Nil
        /\ gid[p].ret.SizeBytes = 1073741824
        /\ gid[p].ret.Size = [whole |-> 1, hundredths |-> 0, unit |-> "GB"]

\* C20: a scan that has completed a pod report and then meets an inspection
\* that never returns is not stuck: it still has a step to take, the one that
\* gives up the inspection and returns the reports that are complete
C20_StuckInspectionDoesNotHangScan ==
    /\ \E p \in DOMAIN gid : gid[p].pc = "hung"
    /\ scan.pc = "call" /\ scan.reports # <<>>
    => ENABLED NextHang

\* C21: a container that fails to resolve does not end the work on its
\* siblings: a pod that was fetched returns only after every container it
\* declares has been resolved, and a scan that listed its pods returns only
\* after every listed pod has been visited
C21_SiblingsStillResolved ==
    /\ podf.pc = "ret" =>
           podf.currentContainer = Len(podf.pod.InitContainers) + Len(podf.pod.Containers)
    /\ scan.pc = "ret" /\ scan.err = Nil => scan.i = Len(scan.pods)

\* the calls of getPodImageReport that failed at a container: the pod was
\* fetched and declares containers
ContainerFailures == {i \in DOMAIN outcomes : ~outcomes[i].ok /\ outcomes[i].containers > 0}

ErrorKinds == {stderr[i].kind : i \in DOMAIN stderr}

\* C22: with a pod name given, a container that fails to resolve ends the run:
\* the error is written, the run exits with status 1 and nothing is rendered;
\* without a pod name such a failure writes a warning for the pod and never
\* the error, and it is not what makes a run exit
C22_SinglePodErrorFailsRun ==
    /\ mainf.podName # 0 /\ ContainerFailures # {} =>
           /\ mainf.pc = "exit1"
           /\ ~mainf.rendered /\ mainf.output = <<>> /\ mainf.reports = <<>>
           /\ stderr = <<[kind |-> "Error retrieving pod data", pod |-> mainf.podName,
                          ns |-> mainf.namespace]>>
    /\ mainf.podName = 0 =>
           /\ "Error retrieving pod data" \notin ErrorKinds
           /\ Len(PodWarnings) >= Cardinality(ContainerFailures)
           /\ mainf.pc = "exit1" =>
                  stderr[Len(stderr)].kind \in
                      {"Error loading kubeconfig", "Error retrieving namespace data"}
           /\ mainf.pc = "exit1" /\ stderr[Len(stderr)].kind = "Error retrieving namespace data"
                  => outcomes = <<>>

\* C22: the run for one pod has exited after a container of its
\* two-container pod failed
C22_Witness ==
    /\ mainf.podName # 0 /\ mainf.pc = "exit1"
    /\ Len(outcomes) = 1 /\ ~outcomes[1].ok /\ outcomes[1].containers = 2

\* C23: a run without --all-namespaces stays in one namespace, the given one
\* or else the current one: the pods it lists and the reports it gathers all
\* lie in the same namespace
C23_DefaultScanStaysInOneNamespace ==
    ~mainf.allNamespaces =>
        /\ \A i, j \in DOMAIN scan.pods : scan.pods[i].Namespace = scan.pods[j].Namespace
        /\ \A i, j \in DOMAIN mainf.reports :
               mainf.reports[i].Namespace = mainf.reports[j].Namespace
        /\ mainf.namespace # "" =>
               \A i \in DOMAIN scan.pods : scan.pods[i].Namespace = mainf.namespace

\* the reference a URI without a digest is first inspected by: repository:tag,
\* or the repository alone when the tag is the placeholder
TagRef(f) ==
    LET r == parseImageURI(f.imageURI)
    IN  IF r.tag # NA THEN r.cleanedImage \o <<":">> \o r.tag ELSE r.cleanedImage

\* C24: when the parsed URI has a digest, every inspection of the call is of
\* repository@sha256:<digest>, whatever the tag; when it has none, the first
\* inspection is of repository:tag, or of the repository alone when the tag
\* is the placeholder
C24_DigestTakesPrecedence ==
    \A p \in DOMAIN gid :
        LET f == gid[p]
        IN  Parsed(f) /\ f.pc # "panic" =>
                /\ Pinned(f) =>
                       /\ f.fullImage = PinnedRef(f)
                       /\ \A i \in DOMAIN insp[p] : insp[p][i].ref = PinnedRef(f)
                /\ ~Pinned(f) /\ insp[p] # <<>> => insp[p][1].ref = TagRef(f)

\* a URI with both a tag and a digest was inspected by its digest, beside a
\* URI with no tag that was inspected by its repository alone
C24_Witness ==
    \E p, q \in DOMAIN gid :
        /\ gid[p].imageURI = uTagPin /\ gid[p].pc = "ret"
        /\ insp[p] = <<[ref |-> uPin, ok |-> TRUE]>>
        /\ gid[q].imageURI = uBare /\ insp[q] # <<>> /\ insp[q][1].ref = uBare

\* C25: every record getImageDetails returns carries the container name of
\* the call and the tag parsed from the URI of the call, also when the record
\* is served from the cache
C25_RecordNamesItsCaller ==
    \A p \in DOMAIN gid :
        LET f == gid[p]
        IN  f.pc = "ret" /\ f.err = Nil =>
                /\ f.ret.ContainerName = f.containerName
                /\ f.ret.Tag = parseImageURI(f.imageURI).tag

\* the call is out of getImageDetails
Left(p) == gid[p].pc \in {"ret", "panic"}

\* a node lookup or an inspection of the call is outstanding, or will never
\* return
Outstanding(p) == gid[p].pc \in {"nodeget", "inspect1", "fallback", "inspect2", "hung"}

\* C26: the mutex is held only between a Lock and the Unlock that follows it:
\* not by a call that has returned, by a hit, a miss or an error, and not by
\* a call whose inspection or node lookup is outstanding; so a caller waiting
\* for the mutex waits for a holder that is at the map and can go on
C26_MutexNeverHeldAcrossInspection ==
    /\ cacheMutex \in Workers \cup {Free}
    /\ \A p \in DOMAIN gid :
           /\ cacheMutex = p => InCritical(p)
           /\ Left(p) \/ Outstanding(p) => cacheMutex # p
           /\ gid[p].pc \in {"lock1", "lock2"} /\ cacheMutex # Free =>
                  /\ InCritical(cacheMutex)
                  /\ ENABLED (\/ gid_Lookup(cacheMutex) \/ gid_Unlock1(cacheMutex)
                              \/ gid_Store(cacheMutex) \/ gid_Unlock2(cacheMutex))

\* one caller looked its node up and an inspection of it never returned; the
\* other caller missed, inspected, stored its record and returned
C26_Witness ==
    \E p, q \in DOMAIN gid :
        /\ gid[q].pc = "hung" /\ gid[q].lookups = 1
        /\ gid[p].pc = "ret" /\ gid[p].err = Nil /\ ~gid[p].found
        /\ gid[p].fullImage \in DOMAIN imageCache
        /\ cacheMutex = Free

\* C27: when a call of getImageDetails has returned an error, the cache is
\* the cache the call found: no key added, no record altered
C27_FailedCallLeavesCache ==
    \A p \in DOMAIN gid :
        gid[p].pc = "ret" /\ gid[p].err # Nil => imageCache = gid[p].cacheAtCall

\* a call made with a record in the cache inspected its reference and
\* returned the error of that inspection
C27_Witness ==
    /\ gid[Main].pc = "ret" /\ gid[Main].err # Nil
    /\ insp[Main] # <<>> /\ ~insp[Main][Len(insp[Main])].ok
    /\ gid[Main].cacheAtCall # [k \in {} |-> ZeroInfo]

\* the manifest list of a tag-only reference named a descriptor of the node's
\* architecture, and fullImage is now repository@<digest of that descriptor>
ArchResolved(f) == SawManifestList(f) /\ Matching(f) # {}

\* C28: a tag-only call whose manifest list resolves to a reference that was
\* in the cache when the call was made inspects once, the tag reference, and
\* returns the cached record with no inspection of the resolved reference
C28_ResolvedHitInspectsOnce ==
    \A p \in Procs :
        LET f == gid[p]
        IN  ArchResolved(f) /\ f.fullImage \in DOMAIN f.cacheAtCall =>
                /\ insp[p] = <<[ref |-> TagRef(f), ok |-> TRUE]>>
                /\ f.pc \in {"lock1", "lookup", "unlock1", "ret"}
                /\ f.pc = "ret" =>
                       /\ f.err = Nil /\ f.found
                       /\ f.ret = f.cacheAtCall[f.fullImage]

\* m:t on an arm64 node resolved to m@sha256:2, which an earlier container
\* had cached, and the call returned that record
C28_Witness ==
    /\ gid[Main].pc = "ret" /\ gid[Main].imageURI = uMulti
    /\ ArchResolved(gid[Main]) /\ gid[Main].found
    /\ gid[Main].fullImage = <<"m", "@", "sha256", ":", "2">>
    /\ gid[Main].fullImage \in DOMAIN gid[Main].cacheAtCall

\* the call has inspected its final reference and built the record to store
Built(f) == f.pc \in {"lock2", "store", "unlock2"}

\* C29: the digest of a record depends on its cache key alone: two calls that
\* built a record for the same key repository@sha256:<hex>, one from a URI
\* that carries the digest and one through the manifest list of a tag, give
\* it the same digest value
C29_OneDigestFormat ==
    \A p, q \in DOMAIN gid :
        /\ Built(gid[p]) /\ Built(gid[q])
        /\ gid[p].fullImage = gid[q].fullImage
        => gid[p].imageInfo.ShaDigest = gid[q].imageInfo.ShaDigest

\* the pods a sequence of reports is about, in order
ReportKeys(reports) ==
    [i \in DOMAIN reports |-> <<reports[i].Namespace, reports[i].PodName>>]

\* the pods a sequence of listed pods names, in order
ListedKeys(pods) == [i \in DOMAIN pods |-> <<pods[i].Namespace, pods[i].Name>>]

\* the pods a sequence of outcomes is about, in order
OutcomeKeys(outs) == [i \in DOMAIN outs |-> <<outs[i].ns, outs[i].pod>>]

Succeeded(o) == o.ok

\* the pods of the running scan whose getPodImageReport call has been handled
Handled == IF scan.pc = "call" THEN scan.i - 1 ELSE scan.i

\* the outcomes of the running scan, and those of the scans before it
ScanOutcomes == SubSeq(outcomes, Len(outcomes) - Handled + 1, Len(outcomes))

EarlierOutcomes == SubSeq(outcomes, 1, Len(outcomes) - Handled)

\* the position of a namespace in the listing of the cluster scan
NsIndex(ns) == CHOOSE k \in DOMAIN clf.namespaces : clf.namespaces[k] = ns

\* C30: a namespace scan handles the listed pods in listing order and its
\* reports are those pods with exactly the failed ones removed; a cluster
\* scan holds the results of the namespaces scanned so far in namespace
\* listing order, and a namespace whose listing failed adds nothing to them
C30_ReportsKeepListingOrder ==
    mainf.podName = 0 =>
        /\ Handled <= Len(outcomes)
        /\ OutcomeKeys(ScanOutcomes) = ListedKeys(SubSeq(scan.pods, 1, Handled))
        /\ ReportKeys(scan.reports) = OutcomeKeys(SelectSeq(ScanOutcomes, Succeeded))
        /\ scan.pc = "ret" /\ scan.err = Nil =>
               scan.ret = scan.reports /\ Handled = Len(scan.pods)
        /\ scan.pc = "ret" /\ scan.err # Nil => scan.ret = <<>> /\ scan.reports = <<>>
        /\ mainf.pc \in {"render", "done"} =>
               ReportKeys(mainf.reports) = OutcomeKeys(SelectSeq(outcomes, Succeeded))
        /\ clf.pc \notin {"idle", "list"} =>
               /\ ReportKeys(clf.allReports)
                      = OutcomeKeys(SelectSeq(EarlierOutcomes, Succeeded))
               /\ \A i \in DOMAIN outcomes :
                      \E k \in 1..clf.nsIndex : clf.namespaces[k] = outcomes[i].ns
               /\ \A i, j \in DOMAIN outcomes : i < j =>
                      \/ NsIndex(outcomes[i].ns) < NsIndex(outcomes[j].ns)
                      \/ /\ outcomes[i].ns = outcomes[j].ns
                         /\ outcomes[i].pod < outcomes[j].pod
               /\ clf.pc = "ret" /\ clf.err = Nil =>
                      clf.ret = clf.allReports /\ clf.nsIndex = Len(clf.namespaces)

\* a cluster scan returned the report of a pod of the first namespace followed
\* by the report of a pod of the second
C30_Witness ==
    /\ clf.pc = "ret" /\ clf.err = Nil
    /\ ReportKeys(clf.ret) = <<<<"ns1", 1>>, <<"ns2", 1>>>>

=============================================================================
